---- MODULE Spec2Model ----
(***************************************************************************)
(* A model of carli's error module (src/src/error.rs): the Error value,    *)
(* its builder methods, its Display rendering, the conversion from a       *)
(* chained std::error::Error, the Result::context combinator and exit().   *)
(*                                                                         *)
(* Text is modelled as a sequence of one-character strings, so that        *)
(* indentation, newlines and concatenation are computed and not assumed.   *)
(***************************************************************************)
EXTENDS Integers, Sequences, FiniteSets

(***************************************************************************)
(* Bounds of the model.                                                    *)
(***************************************************************************)
\* the largest number of context entries an Error is grown to
MaxContext == 3
\* the largest number of nodes in a native error chain
MaxChain == 3

(***************************************************************************)
(* Input pools.                                                            *)
(***************************************************************************)
\* texts given as messages, context annotations and native display texts:
\* the empty text, a plain one, and one that itself starts with a space
TextPool == { <<>>, <<"a">>, <<" ", "b">> }
\* exit statuses given to Error::new
StatusPool == { -1, 0, 3 }
\* raw platform codes carried by OS-level std::io::Error values
OsCodePool == { 2, 13 }
\* success values carried by an Ok result
ValuePool == { 7, 8 }

(***************************************************************************)
(* Option<T>: None, or Some(val).                                          *)
(***************************************************************************)
None == [some |-> FALSE, val |-> <<>>]
Some(v) == [some |-> TRUE, val |-> v]

(***************************************************************************)
(* Native errors.  A chain is a sequence of nodes; node i+1 is what        *)
(* source() returns on node i and the last node has no source.  kind is    *)
(* "IoOs" for a std::io::Error that carries a raw OS code, "Io" for a      *)
(* std::io::Error without one, and "Other" for any other error type.       *)
(* An OS-level io::Error never has a source, so it is only ever terminal.  *)
(***************************************************************************)
InnerNodes == [text : TextPool, kind : {"Io", "Other"}, code : {0}]
TerminalNodes ==
    [text : TextPool, kind : {"Io", "Other"}, code : {0}]
        \cup [text : TextPool, kind : {"IoOs"}, code : OsCodePool]

RECURSIVE ChainsOfLen(_)
ChainsOfLen(n) ==
    IF n = 1
    THEN { <<t>> : t \in TerminalNodes }
    ELSE { <<h>> \o c : h \in InnerNodes, c \in ChainsOfLen(n - 1) }

Chains == UNION { ChainsOfLen(n) : n \in 1..MaxChain }

\* current.source()
Source(chain, i) == IF i < Len(chain) THEN Some(i + 1) ELSE None
\* current.to_string()
NodeToString(chain, i) == chain[i].text
\* current.downcast_ref::<std::io::Error>()
IsIoError(chain, i) == chain[i].kind \in {"Io", "IoOs"}
\* other.raw_os_error()
RawOsError(chain, i) ==
    IF chain[i].kind = "IoOs" THEN Some(chain[i].code) ELSE None

(***************************************************************************)
(* Error { context, message, status }                                      *)
(***************************************************************************)
\* Error::default()
ErrorDefault == [context |-> None, message |-> None, status |-> 1]

\* Error::new(status), with the context field created eagerly
ErrorNewEagerContext(status) ==
    [context |-> Some(<<>>), message |-> None, status |-> status]

\* Error::new(status) that builds the default error whatever the status
ErrorNewDefaultStatus(status) ==
    [context |-> None, message |-> None, status |-> 1]

\* Error::new(status)
ErrorNew(status) == [context |-> None, message |-> None, status |-> status]

\* Error::context(message), replacing the collected context
ErrorContextReplace(self, message) ==
    [self EXCEPT !.context = Some(<<message>>)]

\* Error::context(message)
ErrorContext(self, message) ==
    LET created == IF ~self.context.some THEN Some(<<>>) ELSE self.context
    IN  [self EXCEPT !.context = Some(Append(created.val, message))]

\* Error::message(message) that keeps a message that is already set
ErrorMessageKeepFirst(self, message) ==
    IF self.message.some THEN self ELSE [self EXCEPT !.message = Some(message)]

\* Error::message(message)
ErrorMessage(self, message) == [self EXCEPT !.message = Some(message)]

(***************************************************************************)
(* impl Inspect for Error                                                  *)
(***************************************************************************)
\* Inspect::get_context returning the entries newest first
GetContextNewestFirst(self) ==
    IF self.context.some
    THEN Some([i \in 1..Len(self.context.val) |->
                 self.context.val[Len(self.context.val) + 1 - i]])
    ELSE None

\* Inspect::get_context: the entries as a Vec<&str>, in the stored order
GetContext(self) ==
    IF self.context.some
    THEN Some([i \in 1..Len(self.context.val) |-> self.context.val[i]])
    ELSE None

\* Inspect::get_message
GetMessage(self) == self.message

\* Inspect::get_status
GetStatus(self) == self.status

(***************************************************************************)
(* impl fmt::Display for Error                                             *)
(***************************************************************************)
\* " ".repeat(n)
RECURSIVE Repeat(_)
Repeat(n) == IF n <= 0 THEN <<>> ELSE <<" ">> \o Repeat(n - 1)

\* writeln!(f, "{}{}", " ".repeat(depth * 2), message)
Writeln(depth, message) == Repeat(depth * 2) \o message \o <<"\n">>

\* for message in context.iter().rev() { writeln!(...); depth += 1 }
\* i is the index of the entry the reversed iterator yields next
RECURSIVE DisplayContext(_, _, _)
DisplayContext(context, i, depth) ==
    IF i < 1
    THEN [out |-> <<>>, depth |-> depth]
    ELSE LET rest == DisplayContext(context, i - 1, depth + 1)
         IN  [out |-> Writeln(depth, context[i]) \o rest.out,
              depth |-> rest.depth]

\* the same loop without .rev()
RECURSIVE DisplayContextForward(_, _, _)
DisplayContextForward(context, i, depth) ==
    IF i > Len(context)
    THEN [out |-> <<>>, depth |-> depth]
    ELSE LET rest == DisplayContextForward(context, i + 1, depth + 1)
         IN  [out |-> Writeln(depth, context[i]) \o rest.out,
              depth |-> rest.depth]

\* Display::fmt iterating the context in insertion order
DisplayForward(self) ==
    LET ctx == IF self.context.some
               THEN DisplayContextForward(self.context.val, 1, 0)
               ELSE [out |-> <<>>, depth |-> 0]
    IN  ctx.out \o (IF self.message.some
                    THEN Writeln(ctx.depth, self.message.val)
                    ELSE <<>>)

\* Display::fmt
Display(self) ==
    LET ctx == IF self.context.some
               THEN DisplayContext(self.context.val, Len(self.context.val), 0)
               ELSE [out |-> <<>>, depth |-> 0]
    IN  ctx.out \o (IF self.message.some
                    THEN Writeln(ctx.depth, self.message.val)
                    ELSE <<>>)

(***************************************************************************)
(* Error::exit: what is written to STDERR and the code given to            *)
(* process::exit.  eprintln! writes its formatted argument and a newline.  *)
(***************************************************************************)
Eprintln(text) == text \o <<"\n">>

\* Error::exit without the test for a message or context
ErrorExitAlwaysPrints(self) ==
    [stderr |-> Eprintln(Display(self)), code |-> self.status]

\* Error::exit
ErrorExit(self) ==
    [stderr |-> IF self.context.some \/ self.message.some
                THEN Eprintln(Display(self))
                ELSE <<>>,
     code |-> self.status]

(***************************************************************************)
(* impl<T: std::error::Error + 'static> From<T> for Error                  *)
(*                                                                         *)
(* FromLoop is the traversal loop: current is the node the loop is at,     *)
(* context the Option<Vec<String>> collected so far, and walk the nodes    *)
(* the loop has been at, in order.                                         *)
(***************************************************************************)
RECURSIVE FromLoop(_, _, _, _)
FromLoop(chain, current, context, walk) ==
    LET next == Source(chain, current)
        here == Append(walk, current)
    IN  IF next.some
        THEN LET vec == IF context.some THEN context.val ELSE <<>>
             IN  FromLoop(chain, next.val,
                          Some(Append(vec, NodeToString(chain, current))),
                          here)
        ELSE [error |->
                [context |-> context,
                 message |-> Some(NodeToString(chain, current)),
                 status  |-> IF IsIoError(chain, current)
                                /\ RawOsError(chain, current).some
                             THEN RawOsError(chain, current).val
                             ELSE 1],
              walk |-> here]

\* the reverse of a sequence
Reverse(s) == [i \in 1..Len(s) |-> s[Len(s) + 1 - i]]

\* From::from capturing the lowest level error as context as well
FromErrorTerminalAsContext(chain) ==
    LET r == FromLoop(chain, 1, None, <<>>)
        vec == IF r.error.context.some THEN r.error.context.val ELSE <<>>
    IN  [r EXCEPT !.error.context =
            Some(Append(vec, NodeToString(chain, Len(chain))))]

\* From::from taking the status from the given error, not the lowest one
FromErrorStatusOfFirst(chain) ==
    LET r == FromLoop(chain, 1, None, <<>>)
    IN  [r EXCEPT !.error.status =
            IF IsIoError(chain, 1) /\ RawOsError(chain, 1).some
            THEN RawOsError(chain, 1).val
            ELSE 1]

\* From::from inserting each captured error at the front of the context
FromErrorReversed(chain) ==
    LET r == FromLoop(chain, 1, None, <<>>)
    IN  IF r.error.context.some
        THEN [r EXCEPT !.error.context = Some(Reverse(r.error.context.val))]
        ELSE r

\* From::from
FromError(chain) == FromLoop(chain, 1, None, <<>>)

(***************************************************************************)
(* Result<T> and impl<T> Context for Result<T>.  calls counts how often    *)
(* the closure was invoked; message is the text the closure produces.      *)
(***************************************************************************)
Ok(value) == [tag |-> "Ok", value |-> value, error |-> ErrorDefault]
Err(error) == [tag |-> "Err", value |-> 0, error |-> error]
Unset == [tag |-> "Unset", value |-> 0, error |-> ErrorDefault]

\* Result::context building the message before looking at the result
ResultContextEager(self, message) ==
    [result |-> IF self.tag = "Err"
                THEN Err(ErrorContext(self.error, message))
                ELSE self,
     calls |-> 1]

\* Result::context putting the new annotation in front of the earlier ones
ResultContextPrepend(self, message) ==
    IF self.tag = "Err"
    THEN LET vec == IF self.error.context.some
                    THEN self.error.context.val ELSE <<>>
         IN  [result |-> Err([self.error EXCEPT
                                !.context = Some(<<message>> \o vec)]),
              calls |-> 1]
    ELSE [result |-> self, calls |-> 0]

\* Result::context: self.map_err(|error| error.context(message()))
ResultContext(self, message) ==
    IF self.tag = "Err"
    THEN [result |-> Err(ErrorContext(self.error, message)), calls |-> 1]
    ELSE [result |-> self, calls |-> 0]

(***************************************************************************)
(* The state: a program that builds one Result, passes it up through its   *)
(* call layers and possibly exits on it.                                   *)
(*   res       the Result being handled (Unset before it is built)         *)
(*   last      the last operation: its name, text argument, the native     *)
(*             chain it converted, the closure invocations it made, the    *)
(*             text it returned and the nodes its traversal was at         *)
(*   stderr    everything written to the error stream                      *)
(*   exitCode  the code given to process::exit, once it was called         *)
(*   pc        "running" or "exited"                                       *)
(*   native    the native chain res.error is the conversion of; empty when *)
(*             the error was built otherwise or was changed since          *)
(***************************************************************************)
VARIABLES res, last, stderr, exitCode, pc, native

(***************************************************************************)
(* The state of one execution context (io::Test) shared by threads:        *)
(*   locked    per field of Base, whether its Mutex is locked              *)
(*   poisoned  per field, whether its Mutex is poisoned                    *)
(*   stream    per field, the bytes of its buffer and the read position    *)
(*   acquired  per field, how often its Mutex has been acquired            *)
(*   segments  per field, what each acquisition did to the buffer since    *)
(*             the buffer was last replaced, in acquisition order          *)
(*   thread    per thread, what it is doing and which guards it holds      *)
(*   started   the number of calls made on the context so far              *)
(***************************************************************************)
VARIABLES locked, poisoned, stream, acquired, segments, thread, started

(***************************************************************************)
(* The state of one io::Stream and of the process it belongs to:           *)
(*   stm       the Stream: its backing kind and, for the memory kind, the  *)
(*             bytes of its buffer and its position                        *)
(*   console   the bytes written to the error and to the output console    *)
(*   stdin     the bytes of the input console not yet read                 *)
(*   halted    whether a contract violation has halted the process         *)
(*   hist      the last operation on the Stream and what it returned, and  *)
(*             what has been done with the Stream since its construction   *)
(***************************************************************************)
VARIABLES stm, console, stdin, halted, hist

(***************************************************************************)
(* The state of a run of one of the example programs:                      *)
(*   app       the program, its command line and where the run is          *)
(*   stdout    the text written to the process's standard output           *)
(***************************************************************************)
VARIABLES app, stdout

errorVars == <<res, last, stderr, exitCode, pc, native>>

streamVars == <<stm, console, stdin, halted, hist>>

appVars == <<app, stdout>>

ioVars == <<locked, poisoned, stream, acquired, segments, thread, started>>

vars == <<res, last, stderr, exitCode, pc, native,
          locked, poisoned, stream, acquired, segments, thread, started,
          stm, console, stdin, halted, hist, app, stdout>>

Op(name, arg) ==
    [op |-> name, arg |-> arg, chain |-> <<>>, calls |-> 0,
     out |-> <<>>, walk |-> <<>>, status |-> 0, ret |-> <<>>]

\* process::exit has not been called
NoCode == [some |-> FALSE, val |-> 0]

\* the context entries of an error, None read as no entries
Entries(error) == IF error.context.some THEN error.context.val ELSE <<>>

ErrorInit ==
    /\ res = Unset
    /\ last = Op("init", <<>>)
    /\ stderr = <<>>
    /\ exitCode = NoCode
    /\ pc = "running"
    /\ native = <<>>

\* Err(Error::new(status))
New(status) ==
    /\ pc = "running" /\ res.tag = "Unset"
    /\ res' = Err(ErrorNew(status))
    /\ last' = [Op("new", <<>>) EXCEPT !.status = status]
    /\ UNCHANGED <<stderr, exitCode, pc, native>>
    /\ UNCHANGED <<ioVars, streamVars, appVars>>

\* Err(Error::default())
Default ==
    /\ pc = "running" /\ res.tag = "Unset"
    /\ res' = Err(ErrorDefault)
    /\ last' = Op("default", <<>>)
    /\ UNCHANGED <<stderr, exitCode, pc, native>>
    /\ UNCHANGED <<ioVars, streamVars, appVars>>

\* Ok(value)
Succeed(value) ==
    /\ pc = "running" /\ res.tag = "Unset"
    /\ res' = Ok(value)
    /\ last' = Op("ok", <<>>)
    /\ UNCHANGED <<stderr, exitCode, pc, native>>
    /\ UNCHANGED <<ioVars, streamVars, appVars>>

\* Err(Error::from(native)), as the ? operator does on a native error
Convert(chain) ==
    /\ pc = "running" /\ res.tag = "Unset"
    /\ LET r == FromError(chain)
       IN  /\ res' = Err(r.error)
           /\ last' = [Op("from", <<>>) EXCEPT !.chain = chain,
                                               !.walk = r.walk]
    /\ native' = chain
    /\ UNCHANGED <<stderr, exitCode, pc>>
    /\ UNCHANGED <<ioVars, streamVars, appVars>>

\* error.message(message)
Message(message) ==
    /\ pc = "running" /\ res.tag = "Err"
    /\ res' = Err(ErrorMessage(res.error, message))
    /\ last' = Op("message", message)
    /\ native' = <<>>
    /\ UNCHANGED <<stderr, exitCode, pc>>
    /\ UNCHANGED <<ioVars, streamVars, appVars>>

\* error.context(message)
Context(message) ==
    /\ pc = "running" /\ res.tag = "Err"
    /\ Len(Entries(res.error)) < MaxContext
    /\ res' = Err(ErrorContext(res.error, message))
    /\ last' = Op("context", message)
    /\ native' = <<>>
    /\ UNCHANGED <<stderr, exitCode, pc>>
    /\ UNCHANGED <<ioVars, streamVars, appVars>>

\* result.context(|| message)
ContextResult(message) ==
    /\ pc = "running" /\ res.tag \in {"Ok", "Err"}
    /\ Len(Entries(res.error)) < MaxContext
    /\ LET r == ResultContext(res, message)
       IN  /\ res' = r.result
           /\ last' = [Op("result_context", message) EXCEPT
                          !.calls = r.calls]
    /\ native' = <<>>
    /\ UNCHANGED <<stderr, exitCode, pc>>
    /\ UNCHANGED <<ioVars, streamVars, appVars>>

\* format!("{}", error)
Format ==
    /\ pc = "running" /\ res.tag = "Err"
    /\ last' = [Op("display", <<>>) EXCEPT !.out = Display(res.error)]
    /\ UNCHANGED <<res, stderr, exitCode, pc, native>>
    /\ UNCHANGED <<ioVars, streamVars, appVars>>

\* error.get_status(), error.get_message() or error.get_context()
Inspect(which) ==
    /\ pc = "running" /\ res.tag = "Err"
    /\ last' = [Op(which, <<>>) EXCEPT !.ret =
                   CASE which = "get_status" -> GetStatus(res.error)
                     [] which = "get_message" -> GetMessage(res.error)
                     [] which = "get_context" -> GetContext(res.error)]
    /\ UNCHANGED <<res, stderr, exitCode, pc, native>>
    /\ UNCHANGED <<ioVars, streamVars, appVars>>

\* error.exit()
Exit ==
    /\ pc = "running" /\ res.tag = "Err"
    /\ LET r == ErrorExit(res.error)
       IN  /\ stderr' = stderr \o r.stderr
           /\ exitCode' = Some(r.code)
    /\ pc' = "exited"
    /\ last' = Op("exit", <<>>)
    /\ UNCHANGED <<res, native>>
    /\ UNCHANGED <<ioVars, streamVars, appVars>>

(***************************************************************************)
(* io::Base<E, I, O> as io::Test: three fields, each an Arc<Mutex<_>>      *)
(* around an in-memory buffer, used by several threads.                    *)
(***************************************************************************)
\* the number of threads sharing the context
NumThreads == 2
\* the number of calls made on the context in one run
MaxCalls == 2
\* the number of guards one thread holds at once
MaxDepth == 2

Threads == 1..NumThreads

\* the fields of Base, one per role
Fields == {"error", "input", "output"}

\* the closures given to error() and output(): the bytes a closure writes,
\* one write call per byte, and the value it returns, or that it panics
ClosurePool ==
    { [chunks |-> <<1>>, result |-> "Ok"],
      [chunks |-> <<2, 3>>, result |-> "Err"],
      [chunks |-> <<>>, result |-> "panic"] }
\* the value a closure reading the input returns: a success or a failure
ResultPool == {"Ok", "Err"}
\* the contents given to set_input
ContentPool == { <<5, 6>> }
\* the bytes written through the guard of a handle
HandlePool == { <<4>> }

\* Base::error / input / output with one mutex for all three roles
AccessorFieldShared(role) == "error"

\* Base::error / input / output: let mutex = self.<role>.clone()
AccessorField(role) == role

\* Base::to_error / to_output handing out the other output's mutex
HandleFieldSwapped(role) ==
    CASE role = "error" -> "output"
      [] role = "output" -> "error"
      [] OTHER -> role

\* Base::to_error / to_input / to_output: self.<role>.clone()
HandleField(role) == role

\* Test::to_error_vec / to_output_vec cloning the other output buffer
SnapshotFieldSwapped(role) == IF role = "error" THEN "output" ELSE "error"

\* Test::to_error_vec / to_output_vec: let mutex = self.<role>.clone()
SnapshotField(role) == role

\* Test::reset_error / reset_input / reset_output
ResetField(role) == role

\* Test::set_input: let mutex = self.error.clone()
SetInputField == "error"

\* the tests filling the input: let mutex = test.input.clone()
DirectField == "input"

\* Test::reset: reset_error(), then reset_input(), then reset_output()
ResetOrder == <<"error", "input", "output">>

\* the position of a role in the order of Test::reset
ResetIndex(role) == CHOOSE i \in 1..Len(ResetOrder) : ResetOrder[i] = role

\* a call on the context: the method, its role and its arguments
NoRequest ==
    [op |-> "none", role |-> "none", chunks |-> <<>>, result |-> "Ok",
     contents |-> <<>>]

Request(op, role, chunks, result, contents) ==
    [op |-> op, role |-> role, chunks |-> chunks, result |-> result,
     contents |-> contents]

Requests ==
    { Request("accessor", role, closure.chunks, closure.result, <<>>) :
        role \in {"error", "output"}, closure \in ClosurePool }
    \cup { Request("accessor", "input", <<>>, result, <<>>) :
             result \in ResultPool }
    \cup { Request("handle", role, chunks, "Ok", <<>>) :
             role \in {"error", "output"}, chunks \in HandlePool }
    \cup { Request("handle", "input", <<>>, "Ok", <<>>) }
    \cup { Request("snapshot", role, <<>>, "Ok", <<>>) :
             role \in {"error", "output"} }
    \cup { Request("reset", role, <<>>, "Ok", <<>>) : role \in Fields }
    \cup { Request("set_input", "input", <<>>, "Ok", contents) :
             contents \in ContentPool }
    \cup { Request(op, "input", <<>>, "Ok", contents) :
             op \in {"write_input", "fill_input"}, contents \in ContentPool }
    \cup { Request("reset_all", ResetOrder[1], <<>>, "Ok", <<>>) }

\* the field whose mutex a call locks
FieldOf(request) ==
    CASE request.op = "accessor" -> AccessorField(request.role)
      [] request.op = "handle" -> HandleField(request.role)
      [] request.op = "snapshot" -> SnapshotField(request.role)
      [] request.op = "reset" -> ResetField(request.role)
      [] request.op = "set_input" -> SetInputField
      [] request.op \in {"write_input", "fill_input"} -> DirectField
      [] request.op = "reset_all" -> ResetField(request.role)

\* what the last call of a thread returned, until it makes its next call
NoReturn ==
    [op |-> "none", role |-> "none", result |-> "Ok", calls |-> 0,
     data |-> <<>>]

\* Mutex::lock returning although the mutex is locked
MutexAlwaysAvailable(t, field) == TRUE

\* Mutex::lock of a mutex that lets the thread holding it lock it again
MutexReentrant(t, field) ==
    \/ ~locked[field]
    \/ \E i \in 1..Len(thread[t].stack) : thread[t].stack[i].field = field

\* Mutex::lock returns to thread t only while no guard of the mutex is alive
MutexAvailable(t, field) == ~locked[field]

\* lock() whose poison error is put aside and its guard used
LockPanicsNever(field) == FALSE

\* mutex.lock().expect(..) / .unwrap(): a poisoned mutex gives Err, a panic
LockPanics(field) == poisoned[field]

\* a guard that is dropped only when the closure returned a success
GuardDroppedOnOk(result) == result = "Ok"

\* the guard of an accessor is dropped when the accessor returns
GuardDropped(result) == TRUE

\* reset() that keeps the guards of the roles it has reset until its end
ResetGuardKept(role) == role = "output"

\* the guard of reset_error / reset_input / reset_output is dropped at the
\* end of that method
ResetGuardDropped(role) == TRUE

\* Vec<u8> as io::Write: write appends
VecWrite(s, byte) == [s EXCEPT !.bytes = Append(@, byte)]

\* Cursor<Vec<u8>> as io::Read: read_to_end
ReadToEnd(s) ==
    [data |-> SubSeq(s.bytes, s.pos + 1, Len(s.bytes)),
     stream |-> [s EXCEPT !.pos = IF @ < Len(s.bytes) THEN Len(s.bytes)
                                  ELSE @]]

\* reset_input without its set_position(0)
ResetStreamKeepPosition(role, s) == [s EXCEPT !.bytes = <<>>]

\* reset_error / reset_output: clear(); reset_input: clear(), set_position(0)
ResetStream(role, s) ==
    IF role = "input" THEN [bytes |-> <<>>, pos |-> 0]
    ELSE [s EXCEPT !.bytes = <<>>]

\* Cursor<Vec<u8>> as io::Write: the bytes go to the position, over what
\* is there (behind zeros when the position is past the end), and the
\* position moves behind them
CursorWrite(s, bytes) ==
    [bytes |-> [i \in 1..s.pos |->
                  IF i <= Len(s.bytes) THEN s.bytes[i] ELSE 0]
               \o bytes
               \o SubSeq(s.bytes, s.pos + Len(bytes) + 1, Len(s.bytes)),
     pos |-> s.pos + Len(bytes)]

\* Cursor::set_position
SetPosition(s, pos) == [s EXCEPT !.pos = pos]

\* set_input: *input = Vec::from(contents), on the buffer the guard is of
AssignContents(s, contents) == [s EXCEPT !.bytes = contents]

\* to_error_vec / to_output_vec: vec.clone()
SnapshotOf(s) == s.bytes

\* the fields thread t holds a guard of
Held(t) == { thread[t].stack[i].field : i \in 1..Len(thread[t].stack) }

\* the threads that hold a guard of the field
Holders(field) == { t \in Threads : field \in Held(t) }

\* the segment of acquisition id gets the byte; a new acquisition's segment
\* comes last
RECURSIVE AddToSegment(_, _, _)
AddToSegment(segs, id, byte) ==
    IF segs = <<>> THEN << [id |-> id, bytes |-> <<byte>>] >>
    ELSE IF Head(segs).id = id
         THEN << [Head(segs) EXCEPT !.bytes = Append(@, byte)] >> \o Tail(segs)
         ELSE << Head(segs) >> \o AddToSegment(Tail(segs), id, byte)

ContextInit ==
    /\ locked = [f \in Fields |-> FALSE]
    /\ poisoned = [f \in Fields |-> FALSE]
    /\ stream = [f \in Fields |-> [bytes |-> <<>>, pos |-> 0]]
    /\ acquired = [f \in Fields |-> 0]
    /\ segments = [f \in Fields |-> <<>>]
    /\ thread = [t \in Threads |->
                   [state |-> "running", stack |-> <<>>,
                    want |-> NoRequest, ret |-> NoReturn]]
    /\ started = 0

\* thread t never called the context
Idle(t) ==
    /\ thread[t].state = "running" /\ thread[t].stack = <<>>
    /\ thread[t].want = NoRequest /\ thread[t].ret = NoReturn

\* thread t calls a method of the context and gets to its mutex.lock();
\* the threads are numbered in the order of their first calls
Call(t, request) ==
    /\ thread[t].state = "running"
    /\ \A u \in Threads : u < t => ~Idle(u)
    /\ Len(thread[t].stack) < MaxDepth
    /\ started < MaxCalls
    /\ started' = started + 1
    /\ thread' = [thread EXCEPT ![t].state = "waiting", ![t].want = request,
                                ![t].ret = NoReturn]
    /\ UNCHANGED <<locked, poisoned, stream, acquired, segments>>
    /\ UNCHANGED <<errorVars, streamVars, appVars>>

\* a panic of thread t unwinds it: its guards are dropped, which poisons
\* and unlocks their mutexes; the call it panicked in stays in want
Unwind(t) ==
    /\ locked' = [f \in Fields |-> IF f \in Held(t) THEN FALSE ELSE locked[f]]
    /\ poisoned' = [f \in Fields |-> (f \in Held(t)) \/ poisoned[f]]
    /\ thread' = [thread EXCEPT ![t].state = "panicked", ![t].stack = <<>>]

\* mutex.lock() of thread t returns and the call goes on: an accessor
\* invokes its closure, a handle's guard is kept by the caller, and
\* snapshot, reset, set_input and the tests' writes to the input do their
\* work and drop the guard; reset() goes on to the lock of its next role
Lock(t) ==
    LET request == thread[t].want
        field == FieldOf(request)
        id == acquired[field] + 1
    IN  /\ thread[t].state = "waiting"
        /\ MutexAvailable(t, field)
        /\ IF LockPanics(field)
           THEN /\ Unwind(t)
                /\ UNCHANGED <<stream, acquired, segments>>
           ELSE /\ acquired' = [acquired EXCEPT ![field] = id]
                /\ poisoned' = poisoned
                /\ CASE request.op \in {"accessor", "handle"} ->
                          /\ locked' = [locked EXCEPT ![field] = TRUE]
                          /\ thread' = [thread EXCEPT
                               ![t].state = "running",
                               ![t].want = NoRequest,
                               ![t].stack = Append(@,
                                  [op |-> request.op, role |-> request.role,
                                   field |-> field, id |-> id,
                                   todo |-> request.chunks,
                                   result |-> request.result,
                                   calls |-> IF request.op = "accessor"
                                             THEN 1 ELSE 0,
                                   got |-> FALSE, data |-> <<>>])]
                          /\ UNCHANGED <<stream, segments>>
                     [] request.op = "snapshot" ->
                          /\ thread' = [thread EXCEPT
                               ![t].state = "running",
                               ![t].want = NoRequest,
                               ![t].ret = [op |-> "snapshot",
                                           role |-> request.role,
                                           result |-> "Ok", calls |-> 0,
                                           data |-> SnapshotOf(stream[field])]]
                          /\ UNCHANGED <<locked, stream, segments>>
                     [] request.op = "reset" ->
                          /\ stream' = [stream EXCEPT ![field] =
                                          ResetStream(request.role, @)]
                          /\ segments' = [segments EXCEPT ![field] = <<>>]
                          /\ thread' = [thread EXCEPT
                               ![t].state = "running",
                               ![t].want = NoRequest,
                               ![t].ret = [op |-> "reset",
                                           role |-> request.role,
                                           result |-> "Ok", calls |-> 0,
                                           data |-> <<>>]]
                          /\ locked' = [locked EXCEPT ![field] =
                                          ~ResetGuardDropped(request.role)]
                     [] request.op = "reset_all" ->
                          /\ stream' = [stream EXCEPT ![field] =
                                          ResetStream(request.role, @)]
                          /\ segments' = [segments EXCEPT ![field] = <<>>]
                          /\ IF ResetIndex(request.role) < Len(ResetOrder)
                             THEN thread' = [thread EXCEPT
                                    ![t].want.role =
                                       ResetOrder[ResetIndex(request.role) + 1]]
                             ELSE thread' = [thread EXCEPT
                                    ![t].state = "running",
                                    ![t].want = NoRequest,
                                    ![t].ret = [op |-> "reset_all",
                                                role |-> request.role,
                                                result |-> "Ok", calls |-> 0,
                                                data |-> <<>>]]
                          /\ locked' = [locked EXCEPT ![field] =
                                          ~ResetGuardDropped(request.role)]
                     [] request.op \in {"write_input", "fill_input"} ->
                          LET written == CursorWrite(stream[field],
                                                     request.contents)
                              filled == IF request.op = "fill_input"
                                        THEN SetPosition(written, 0)
                                        ELSE written
                          IN  /\ stream' = [stream EXCEPT ![field] = filled]
                              /\ segments' = [segments EXCEPT ![field] =
                                    << [id |-> id, bytes |-> filled.bytes] >>]
                              /\ thread' = [thread EXCEPT
                                   ![t].state = "running",
                                   ![t].want = NoRequest,
                                   ![t].ret = [op |-> request.op,
                                               role |-> request.role,
                                               result |-> "Ok", calls |-> 0,
                                               data |-> request.contents]]
                              /\ UNCHANGED locked
                     [] request.op = "set_input" ->
                          /\ stream' = [stream EXCEPT ![field] =
                                          AssignContents(@, request.contents)]
                          /\ segments' = [segments EXCEPT ![field] =
                                << [id |-> id,
                                    bytes |-> request.contents] >>]
                          /\ thread' = [thread EXCEPT
                               ![t].state = "running",
                               ![t].want = NoRequest,
                               ![t].ret = [op |-> "set_input",
                                           role |-> request.role,
                                           result |-> "Ok", calls |-> 0,
                                           data |-> request.contents]]
                          /\ UNCHANGED locked
        /\ UNCHANGED started
        /\ UNCHANGED <<errorVars, streamVars, appVars>>

\* mutex.lock() of a thread that already holds a guard of that mutex: std
\* leaves open whether the call panics or never returns
Relock(t, outcome) ==
    /\ thread[t].state = "waiting"
    /\ FieldOf(thread[t].want) \in Held(t)
    /\ ~MutexAvailable(t, FieldOf(thread[t].want))
    /\ IF outcome = "panic"
       THEN Unwind(t)
       ELSE /\ thread' = [thread EXCEPT ![t].state = "stuck"]
            /\ UNCHANGED <<locked, poisoned>>
    /\ UNCHANGED <<stream, acquired, segments, started>>
    /\ UNCHANGED <<errorVars, streamVars, appVars>>

\* the closure (or the holder of a handle's guard) writes its next byte
Write(t) ==
    LET depth == Len(thread[t].stack)
        frame == thread[t].stack[depth]
    IN  /\ thread[t].state = "running"
        /\ depth >= 1
        /\ frame.todo # <<>>
        /\ stream' = [stream EXCEPT ![frame.field] =
                        VecWrite(@, Head(frame.todo))]
        /\ segments' = [segments EXCEPT ![frame.field] =
                          AddToSegment(@, frame.id, Head(frame.todo))]
        /\ thread' = [thread EXCEPT ![t].stack[depth].todo = Tail(@)]
        /\ UNCHANGED <<locked, poisoned, acquired, started>>
        /\ UNCHANGED <<errorVars, streamVars, appVars>>

\* the closure (or the holder of a handle's guard) reads the input to its end
Read(t) ==
    LET depth == Len(thread[t].stack)
        frame == thread[t].stack[depth]
        r == ReadToEnd(stream[frame.field])
    IN  /\ thread[t].state = "running"
        /\ depth >= 1
        /\ frame.role = "input"
        /\ ~frame.got
        /\ stream' = [stream EXCEPT ![frame.field] = r.stream]
        /\ thread' = [thread EXCEPT ![t].stack[depth].data = r.data,
                                    ![t].stack[depth].got = TRUE]
        /\ UNCHANGED <<locked, poisoned, acquired, segments, started>>
        /\ UNCHANGED <<errorVars, streamVars, appVars>>

\* the closure returns and with it the accessor, or the holder of a
\* handle's guard leaves the guard's scope: the guard is dropped
Return(t) ==
    LET depth == Len(thread[t].stack)
        frame == thread[t].stack[depth]
    IN  /\ thread[t].state = "running"
        /\ depth >= 1
        /\ frame.todo = <<>>
        /\ frame.result # "panic"
        /\ locked' = [locked EXCEPT ![frame.field] =
                        ~GuardDropped(frame.result)]
        /\ thread' = [thread EXCEPT
              ![t].stack = SubSeq(@, 1, depth - 1),
              ![t].ret = [op |-> frame.op, role |-> frame.role,
                          result |-> frame.result,
                          calls |-> frame.calls,
                          data |-> frame.data]]
        /\ UNCHANGED <<poisoned, stream, acquired, segments, started>>
        /\ UNCHANGED <<errorVars, streamVars, appVars>>

\* the closure panics: the panic unwinds the thread
Panic(t) ==
    LET depth == Len(thread[t].stack)
        frame == thread[t].stack[depth]
    IN  /\ thread[t].state = "running"
        /\ depth >= 1
        /\ frame.todo = <<>>
        /\ frame.result = "panic"
        /\ Unwind(t)
        /\ UNCHANGED <<stream, acquired, segments, started>>
        /\ UNCHANGED <<errorVars, streamVars, appVars>>

(***************************************************************************)
(* io::Stream: a tagged value over four backing kinds. The memory kind is  *)
(* an owned, seekable, growable byte buffer; the three console kinds are   *)
(* the process's stderr, stdin and stdout. An operation the kind does not  *)
(* support is a contract violation that halts the process.                 *)
(***************************************************************************)
\* the number of bytes a memory stream or a console takes in one run
MaxBuffer == 3

StreamKinds == {"memory", "error", "input", "output"}

\* the bytes written: 'A' and the two bytes of U+00E9, each of which is
\* no UTF-8 without the other
BytePool == {65, 195, 169}

\* the sizes of the buffers given to read
ReadSizes == {1, 2}

\* the bytes waiting on the input console when the process starts
StdinPool == <<65, 169>>

\* U+FFFD REPLACEMENT CHARACTER
Replacement == 65533

\* no Stream constructed yet
NoStream == [kind |-> "none", bytes |-> <<>>, pos |-> 0]

\* Stream::from of a Vec::new(), of stderr(), stdin() or stdout()
StreamFrom(kind) == [kind |-> kind, bytes |-> <<>>, pos |-> 0]

\* the buffer and position of a memory stream
Memory(self) == [bytes |-> self.bytes, pos |-> self.pos]

Min(a, b) == IF a < b THEN a ELSE b

\* what an operation on a Stream gives: whether the kind supports it, the
\* Stream, the consoles and the input console after it, and its bytes
Outcome(ok, self, con, sin, data) ==
    [ok |-> ok, stm |-> self, console |-> con, stdin |-> sin, data |-> data]

\* the contract violation: nothing is done, the process halts
Violation(self, con, sin) == Outcome(FALSE, self, con, sin, <<>>)

\* write on an input console doing nothing and reporting success
StreamWriteSilent(self, con, sin, byte) ==
    IF self.kind = "input" THEN Outcome(TRUE, self, con, sin, <<>>)
    ELSE IF self.kind = "memory"
         THEN LET m == CursorWrite(Memory(self), <<byte>>)
              IN  Outcome(TRUE, [self EXCEPT !.bytes = m.bytes,
                                             !.pos = m.pos],
                          con, sin, <<>>)
         ELSE Outcome(TRUE, self,
                      [con EXCEPT ![self.kind] = Append(@, byte)], sin, <<>>)

\* io::Write for Stream
StreamWrite(self, con, sin, byte) ==
    CASE self.kind = "memory" ->
            LET m == CursorWrite(Memory(self), <<byte>>)
            IN  Outcome(TRUE, [self EXCEPT !.bytes = m.bytes, !.pos = m.pos],
                        con, sin, <<>>)
      [] self.kind \in {"error", "output"} ->
            Outcome(TRUE, self,
                    [con EXCEPT ![self.kind] = Append(@, byte)], sin, <<>>)
      [] self.kind = "input" -> Violation(self, con, sin)

\* io::Read for Stream, with a buffer of n bytes
StreamRead(self, con, sin, n) ==
    CASE self.kind = "memory" ->
            LET end == Min(Len(self.bytes), self.pos + n)
            IN  Outcome(TRUE,
                        [self EXCEPT !.pos = IF @ < end THEN end ELSE @],
                        con, sin, SubSeq(self.bytes, self.pos + 1, end))
      [] self.kind = "input" ->
            Outcome(TRUE, self, con,
                    SubSeq(sin, Min(Len(sin), n) + 1, Len(sin)),
                    SubSeq(sin, 1, Min(Len(sin), n)))
      [] self.kind \in {"error", "output"} -> Violation(self, con, sin)

\* io::Seek for Stream, with SeekFrom::Start(n)
StreamSeek(self, con, sin, n) ==
    CASE self.kind = "memory" ->
            Outcome(TRUE, [self EXCEPT !.pos = n], con, sin, <<>>)
      [] self.kind \in {"error", "input", "output"} ->
            Violation(self, con, sin)

\* the stream read from its position to its end
StreamDrain(self, con, sin) ==
    CASE self.kind = "memory" ->
            Outcome(TRUE,
                    [self EXCEPT !.pos = IF @ < Len(self.bytes)
                                         THEN Len(self.bytes) ELSE @],
                    con, sin,
                    SubSeq(self.bytes, self.pos + 1, Len(self.bytes)))
      [] self.kind = "input" -> Outcome(TRUE, self, con, <<>>, sin)
      [] self.kind \in {"error", "output"} -> Violation(self, con, sin)

\* a decoder that takes every byte above 127 for an error
RECURSIVE Utf8LossyAscii(_)
Utf8LossyAscii(bytes) ==
    IF bytes = <<>> THEN <<>>
    ELSE <<IF bytes[1] < 128 THEN bytes[1] ELSE Replacement>>
            \o Utf8LossyAscii(Tail(bytes))

\* String::from_utf8_lossy, for texts of one-byte and two-byte characters
\* (no byte of BytePool starts a longer one): the code points of the
\* text, with U+FFFD for every byte that is part of no character
RECURSIVE Utf8Lossy(_)
Utf8Lossy(bytes) ==
    IF bytes = <<>> THEN <<>>
    ELSE IF bytes[1] < 128
         THEN <<bytes[1]>> \o Utf8Lossy(Tail(bytes))
    ELSE IF /\ bytes[1] \in 194..223
            /\ Len(bytes) >= 2
            /\ bytes[2] \in 128..191
         THEN <<(bytes[1] - 192) * 64 + (bytes[2] - 128)>>
                 \o Utf8Lossy(Tail(Tail(bytes)))
    ELSE <<Replacement>> \o Utf8Lossy(Tail(bytes))

\* str::from_utf8 succeeds: the bytes are one-byte and two-byte characters
RECURSIVE ValidUtf8(_)
ValidUtf8(bytes) ==
    IF bytes = <<>> THEN TRUE
    ELSE IF bytes[1] < 128 THEN ValidUtf8(Tail(bytes))
    ELSE /\ bytes[1] \in 194..223
         /\ Len(bytes) >= 2
         /\ bytes[2] \in 128..191
         /\ ValidUtf8(Tail(Tail(bytes)))

\* the UTF-8 encoding of a String
RECURSIVE Utf8Encode(_)
Utf8Encode(text) ==
    IF text = <<>> THEN <<>>
    ELSE (IF text[1] < 128 THEN <<text[1]>>
          ELSE IF text[1] < 2048
               THEN <<192 + (text[1] \div 64), 128 + (text[1] % 64)>>
          ELSE <<224 + (text[1] \div 4096),
                 128 + ((text[1] \div 64) % 64),
                 128 + (text[1] % 64)>>)
         \o Utf8Encode(Tail(text))

\* to_string that reads the whole buffer, whatever the position is
StreamToStringWhole(self, con, sin, lossy) ==
    LET r == StreamDrain([self EXCEPT !.pos = 0], con, sin)
    IN  IF ~r.ok \/ (~lossy /\ ~ValidUtf8(r.data))
        THEN Violation(self, con, sin)
        ELSE [r EXCEPT !.data = Utf8Lossy(r.data)]

\* Stream::to_string (strict) and Stream::to_string_lossy: the stream is
\* drained and decoded; bytes that are not UTF-8 halt the strict form
StreamToString(self, con, sin, lossy) ==
    LET r == StreamDrain(self, con, sin)
    IN  IF ~r.ok \/ (~lossy /\ ~ValidUtf8(r.data))
        THEN Violation(self, con, sin)
        ELSE [r EXCEPT !.data = Utf8Lossy(r.data)]

\* what the ghost hist holds: the operation, its argument, what it gave,
\* the bytes written since the construction and whether the Stream has
\* since then only been written to ("fresh"), then sought to its start
\* ("rewound"), then drained ("drained")
History(op, arg, data, written, phase) ==
    [op |-> op, arg |-> arg, data |-> data, written |-> written,
     phase |-> phase]

StreamInit ==
    /\ stm = NoStream
    /\ console = [error |-> <<>>, output |-> <<>>]
    /\ stdin = StdinPool
    /\ halted = FALSE
    /\ hist = History("none", 0, <<>>, <<>>, "none")

\* the Stream takes the outcome of an operation, or the process halts
Takes(r) ==
    /\ stm' = r.stm
    /\ console' = r.console
    /\ stdin' = r.stdin
    /\ halted' = ~r.ok

\* Stream::from
Construct(kind) ==
    /\ stm = NoStream
    /\ stm' = StreamFrom(kind)
    /\ hist' = History("from", 0, <<>>, <<>>, "fresh")
    /\ UNCHANGED <<console, stdin, halted>>
    /\ UNCHANGED <<errorVars, ioVars, appVars>>

\* stream.write(&[byte])
WriteStream(byte) ==
    /\ stm # NoStream /\ ~halted
    /\ Len(hist.written) < MaxBuffer
    /\ LET r == StreamWrite(stm, console, stdin, byte)
       IN  /\ Takes(r)
           /\ hist' = History("write", byte, r.data,
                              IF r.ok THEN Append(hist.written, byte)
                              ELSE hist.written,
                              IF r.ok /\ hist.phase = "fresh" THEN "fresh"
                              ELSE "other")
    /\ UNCHANGED <<errorVars, ioVars, appVars>>

\* stream.read(&mut [0; n])
ReadStream(n) ==
    /\ stm # NoStream /\ ~halted
    /\ LET r == StreamRead(stm, console, stdin, n)
       IN  /\ Takes(r)
           /\ hist' = History("read", n, r.data, hist.written, "other")
    /\ UNCHANGED <<errorVars, ioVars, appVars>>

\* stream.seek(SeekFrom::Start(n)); rewind() is the seek to 0
SeekStream(n) ==
    /\ stm # NoStream /\ ~halted
    /\ LET r == StreamSeek(stm, console, stdin, n)
       IN  /\ Takes(r)
           /\ hist' = History("seek", n, r.data, hist.written,
                              IF r.ok /\ n = 0 /\ hist.phase = "fresh"
                              THEN "rewound" ELSE "other")
    /\ UNCHANGED <<errorVars, ioVars, appVars>>

\* stream.to_string() and stream.to_string_lossy()
ToStringStream(lossy) ==
    /\ stm # NoStream /\ ~halted
    /\ LET r == StreamToString(stm, console, stdin, lossy)
       IN  /\ Takes(r)
           /\ hist' = History(IF lossy THEN "to_string_lossy"
                              ELSE "to_string",
                              0, r.data, hist.written,
                              IF r.ok /\ hist.phase = "rewound"
                              THEN "drained" ELSE "other")
    /\ UNCHANGED <<errorVars, ioVars, appVars>>

NextStream ==
    \/ \E kind \in StreamKinds : Construct(kind)
    \/ \E byte \in BytePool : WriteStream(byte)
    \/ \E n \in ReadSizes : ReadStream(n)
    \/ \E n \in 0..MaxBuffer : SeekStream(n)
    \/ \E lossy \in BOOLEAN : ToStringStream(lossy)

(***************************************************************************)
(* The macros err! and error!, command::Main and the example programs.     *)
(***************************************************************************)
\* format!(message, args): every {} of the message is the argument
RECURSIVE FormatArgs(_, _)
FormatArgs(message, args) ==
    IF message = <<>> THEN <<>>
    ELSE (IF Head(message) = "{}" THEN args ELSE <<Head(message)>>)
            \o FormatArgs(Tail(message), args)

\* error!(status), error!(status, message), error!(status, message, args):
\* message and args are Options, None for the shorter forms
ErrorMacro(status, message, args) ==
    IF ~message.some THEN ErrorNew(status)
    ELSE IF ~args.some THEN ErrorMessage(ErrorNew(status), message.val)
    ELSE ErrorMessage(ErrorNew(status), FormatArgs(message.val, args.val))

\* err! as an expression that builds the Err and does not return
ErrMacroNoReturn(status, message, args) ==
    [returns |-> FALSE, value |-> Err(ErrorMacro(status, message, args))]

\* err!(...): return Err(...) from the enclosing function
ErrMacro(status, message, args) ==
    [returns |-> TRUE,
     value |-> IF ~message.some THEN Err(ErrorNew(status))
               ELSE IF ~args.some
                    THEN Err(ErrorMessage(ErrorNew(status), message.val))
               ELSE Err(ErrorMessage(ErrorNew(status),
                                     FormatArgs(message.val, args.val)))]

\* the messages given to the macros: a plain one and one with a {}
TemplatePool == { <<"a">>, <<"T", "{}", "m">> }
\* the format arguments given to the macros
ArgsPool == { <<"x", "y">> }
\* the io::Error a write to a console fails with; <<>> when writes succeed
FaultPool == { <<>>, << [text |-> <<"a">>, kind |-> "IoOs", code |-> 13] >> }
\* the --name option
NamePool == { <<"w", "o", "r", "l", "d">>, <<"a">> }

\* "The command is about to fail!"
AboutToFail == 
    <<"T", "h", "e", " ", "c", "o", "m", "m", "a", "n", "d", " ", "i", "s", " ">>
        \o <<"a", "b", "o", "u", "t", " ", "t", "o", " ", "f", "a", "i", "l", "!">>
\* "The command failed."
CommandFailed == 
    <<"T", "h", "e", " ", "c", "o", "m", "m", "a", "n", "d", " ", "f", "a", "i", "l", "e", "d", ".">>
\* "Hello, world!"
HelloWorld == 
    <<"H", "e", "l", "l", "o", ",", " ", "w", "o", "r", "l", "d", "!">>

\* writeln!(stream, "{}", text)? on a console: the text and a newline are
\* written, or the write fails and ? returns the converted io::Error
WritelnConsole(written, text, fault) ==
    IF fault = <<>>
    THEN [ok |-> TRUE, written |-> written \o text \o <<"\n">>,
          error |-> ErrorDefault]
    ELSE [ok |-> FALSE, written |-> written,
          error |-> FromError(fault).error]

\* Execute for goodbye::Subcommand and hello::Subcommand:
\* writeln!(context.output(), "<word>, {}{}", context.name(), "!" or ".")?;
\* Ok(())
HandlerExecute(word, run, out) ==
    LET w == WritelnConsole(out, word \o <<",", " ">> \o run.name
                                    \o (IF run.yell THEN <<"!">> ELSE <<".">>),
                            run.fault)
    IN  [result |-> IF w.ok THEN Ok(0) ELSE Err(w.error),
         stdout |-> w.written,
         ran |-> <<IF word = <<"H", "e", "l", "l", "o">> THEN "hello::execute"
                   ELSE "goodbye::execute">>]

\* "Goodbye" and "Hello"
Goodbye == <<"G", "o", "o", "d", "b", "y", "e">>
Hello == <<"H", "e", "l", "l", "o">>

\* a dispatcher whose arms are swapped
SubcommandExecuteSwapped(run, out) ==
    CASE run.subcommand = "Goodbye" -> HandlerExecute(Hello, run, out)
      [] run.subcommand = "Hello" -> HandlerExecute(Goodbye, run, out)

\* Execute for the enum Subcommand: match self { Self::Goodbye(cmd) =>
\* cmd.execute(context), Self::Hello(cmd) => cmd.execute(context) }
SubcommandExecute(run, out) ==
    CASE run.subcommand = "Goodbye" -> HandlerExecute(Goodbye, run, out)
      [] run.subcommand = "Hello" -> HandlerExecute(Hello, run, out)

\* Main::execute: self.subcommand().execute(self)
MainExecute(run, out) == SubcommandExecute(run, out)

\* main that drops the result
MainOutcomeIgnoresError(result) == "end"

\* main: if let Err(error) = ... { error.exit(); }
MainOutcome(result) == IF result.tag = "Err" THEN "exit" ELSE "end"

\* a run: the program and what it is given. single has the --error flag;
\* multiple has a subcommand, --yell and --name; closure is the closure
\* |fail| { if fail { err!(..) } Ok(()) } of the tests of the macros, or
\* with error! in the place of err!
Run(program, flag, fault, subcommand, yell, name, makro, status, message, args) ==
    [program |-> program, flag |-> flag, fault |-> fault,
     subcommand |-> subcommand, yell |-> yell, name |-> name,
     makro |-> makro, status |-> status, message |-> message, args |-> args]

NoRun == Run("none", FALSE, <<>>, "none", FALSE, <<>>, "none", 0, None, None)

Runs ==
    { Run("single", flag, fault, "none", FALSE, <<>>, "none", 0, None, None) :
        flag \in BOOLEAN, fault \in FaultPool }
    \cup { Run("multiple", FALSE, fault, subcommand, yell, name, "none", 0,
               None, None) :
             fault \in FaultPool, subcommand \in {"Goodbye", "Hello"},
             yell \in BOOLEAN, name \in NamePool }
    \cup { r \in { Run("closure", flag, <<>>, "none", FALSE, <<>>, makro,
                        status, message, args) :
                      flag \in BOOLEAN, makro \in {"err", "error"},
                      status \in StatusPool,
                      message \in {None} \cup { Some(m) : m \in TemplatePool },
                      args \in {None} \cup { Some(a) : a \in ArgsPool } } :
             r.args.some => r.message.some }

AppInit ==
    /\ app = [run |-> NoRun, at |-> "none", ran |-> <<>>, exits |-> 0,
              built |-> None]
    /\ stdout = <<>>

\* the program is started with its command line, or the closure is called
Start(run) ==
    /\ app.at = "none" /\ pc = "running" /\ res = Unset
    /\ app' = [app EXCEPT !.run = run, !.at = "body"]
    /\ UNCHANGED <<stdout, errorVars, ioVars, streamVars>>

\* example, if app.error:
\* writeln!(streams.error(), "The command is about to fail!")?;
ExampleWriteError ==
    /\ app.run.program = "single" /\ app.at = "body" /\ app.run.flag
    /\ LET w == WritelnConsole(stderr, AboutToFail, app.run.fault)
       IN  /\ stderr' = w.written
           /\ res' = IF w.ok THEN res ELSE Err(w.error)
           /\ app' = [app EXCEPT !.at = IF w.ok THEN "err" ELSE "main",
                                 !.ran = Append(@, "writeln_error")]
    /\ UNCHANGED <<stdout, last, exitCode, pc, native, ioVars, streamVars>>

\* example: err!(1, "The command failed.");
ExampleErr ==
    /\ app.run.program = "single" /\ app.at = "err"
    /\ LET r == ErrMacro(1, Some(CommandFailed), None)
       IN  /\ res' = IF r.returns THEN r.value ELSE res
           /\ app' = [app EXCEPT !.at = "main", !.ran = Append(@, "err!")]
    /\ UNCHANGED <<stdout, last, stderr, exitCode, pc, native,
                   ioVars, streamVars>>

\* example, else: writeln!(streams.output(), "Hello, world!")?;
ExampleWriteOutput ==
    /\ app.run.program = "single" /\ app.at = "body" /\ ~app.run.flag
    /\ LET w == WritelnConsole(stdout, HelloWorld, app.run.fault)
       IN  /\ stdout' = w.written
           /\ res' = IF w.ok THEN res ELSE Err(w.error)
           /\ app' = [app EXCEPT !.at = IF w.ok THEN "ok" ELSE "main",
                                 !.ran = Append(@, "writeln_output")]
    /\ UNCHANGED <<last, stderr, exitCode, pc, native, ioVars, streamVars>>

\* example: Ok(())
ExampleOk ==
    /\ app.run.program = "single" /\ app.at = "ok"
    /\ res' = Ok(0)
    /\ app' = [app EXCEPT !.at = "main", !.ran = Append(@, "Ok(())")]
    /\ UNCHANGED <<stdout, last, stderr, exitCode, pc, native,
                   ioVars, streamVars>>

\* multiple: app.execute()
Execute ==
    /\ app.run.program = "multiple" /\ app.at = "body"
    /\ LET r == MainExecute(app.run, stdout)
       IN  /\ res' = r.result
           /\ stdout' = r.stdout
           /\ app' = [app EXCEPT !.at = "main", !.ran = @ \o r.ran]
    /\ UNCHANGED <<last, stderr, exitCode, pc, native, ioVars, streamVars>>

\* the closure of the tests of the macros: if fail { err!(..) }, or
\* if fail { let error = error!(..) }
ClosureBody ==
    /\ app.run.program = "closure" /\ app.at = "body"
    /\ LET run == app.run
           r == ErrMacro(run.status, run.message, run.args)
       IN  IF ~run.flag
           THEN /\ app' = [app EXCEPT !.at = "after"]
                /\ res' = res
           ELSE IF run.makro = "err"
                THEN /\ res' = IF r.returns THEN r.value ELSE res
                     /\ app' = [app EXCEPT
                           !.at = IF r.returns THEN "returned" ELSE "after",
                           !.ran = Append(@, "err!")]
                ELSE /\ res' = res
                     /\ app' = [app EXCEPT
                           !.at = "after",
                           !.ran = Append(@, "error!"),
                           !.built = Some(ErrorMacro(run.status, run.message,
                                                     run.args))]
    /\ UNCHANGED <<stdout, last, stderr, exitCode, pc, native,
                   ioVars, streamVars>>

\* the closure of the tests of the macros: Ok(())
ClosureOk ==
    /\ app.run.program = "closure" /\ app.at = "after"
    /\ res' = Ok(0)
    /\ app' = [app EXCEPT !.at = "returned", !.ran = Append(@, "Ok(())")]
    /\ UNCHANGED <<stdout, last, stderr, exitCode, pc, native,
                   ioVars, streamVars>>

\* main: if let Err(error) = .. { error.exit(); }
MainExit ==
    /\ app.at = "main" /\ MainOutcome(res) = "exit"
    /\ LET r == ErrorExit(res.error)
       IN  /\ stderr' = stderr \o r.stderr
           /\ exitCode' = Some(r.code)
    /\ pc' = "exited"
    /\ app' = [app EXCEPT !.at = "exited", !.exits = @ + 1]
    /\ UNCHANGED <<stdout, res, last, native, ioVars, streamVars>>

\* main returns
MainEnd ==
    /\ app.at = "main" /\ MainOutcome(res) = "end"
    /\ app' = [app EXCEPT !.at = "done"]
    /\ UNCHANGED <<stdout, errorVars, ioVars, streamVars>>

NextApp ==
    \/ \E run \in Runs : Start(run)
    \/ ExampleWriteError
    \/ ExampleErr
    \/ ExampleWriteOutput
    \/ ExampleOk
    \/ Execute
    \/ ClosureBody
    \/ ClosureOk
    \/ MainExit
    \/ MainEnd

Init == ErrorInit /\ ContextInit /\ StreamInit /\ AppInit

NextIo ==
    \/ \E t \in Threads, request \in Requests : Call(t, request)
    \/ \E t \in Threads : Lock(t)
    \/ \E t \in Threads, outcome \in {"panic", "deadlock"} : Relock(t, outcome)
    \/ \E t \in Threads : Write(t)
    \/ \E t \in Threads : Read(t)
    \/ \E t \in Threads : Return(t)
    \/ \E t \in Threads : Panic(t)

\* the calls of threads that use the accessors, and reset()
ResetRequests ==
    { request \in Requests : request.op \in {"accessor", "reset_all"} }

\* a call by a thread that holds no guard
CallFlat(t, request) == thread[t].stack = <<>> /\ Call(t, request)

NextReset ==
    \/ \E t \in Threads, request \in ResetRequests : CallFlat(t, request)
    \/ \E t \in Threads : Lock(t)
    \/ \E t \in Threads : Write(t)
    \/ \E t \in Threads : Read(t)
    \/ \E t \in Threads : Return(t)
    \/ \E t \in Threads : Panic(t)

Next ==
    \/ \E status \in StatusPool : New(status)
    \/ Default
    \/ \E value \in ValuePool : Succeed(value)
    \/ \E chain \in Chains : Convert(chain)
    \/ \E message \in TextPool : Message(message)
    \/ \E message \in TextPool : Context(message)
    \/ \E message \in TextPool : ContextResult(message)
    \/ Format
    \/ \E which \in {"get_status", "get_message", "get_context"} :
          Inspect(which)
    \/ Exit

Spec == Init /\ [][Next]_vars

SpecIo == Init /\ [][NextIo]_vars

\* every thread is scheduled again and again: a lock() that stays possible
\* returns, and a closure that can go on goes on
SpecReset ==
    /\ Init /\ [][NextReset]_vars
    /\ \A t \in Threads :
          /\ WF_vars(Lock(t))
          /\ WF_vars(Write(t) \/ Read(t) \/ Return(t) \/ Panic(t))

SpecStream == Init /\ [][NextStream]_vars

SpecApp == Init /\ [][NextApp]_vars

(***************************************************************************)
(* Helpers of the properties.                                              *)
(***************************************************************************)
\* k spaces
Indent(k) == [i \in 1..k |-> " "]

\* line k (from 0) of the rendering of an error with n context entries:
\* entry n-k at two spaces per level, and the message as line n
RenderedLine(error, k) ==
    LET n == Len(Entries(error))
    IN  Indent(2 * k)
          \o (IF k < n THEN Entries(error)[n - k] ELSE error.message.val)
          \o <<"\n">>

\* lines k, k+1, ... count-1 of the rendering, one after another
RECURSIVE RenderedFrom(_, _, _)
RenderedFrom(error, k, count) ==
    IF k >= count THEN <<>>
    ELSE RenderedLine(error, k) \o RenderedFrom(error, k + 1, count)

\* the number of lines of the rendering
LineCount(error) ==
    Len(Entries(error)) + (IF error.message.some THEN 1 ELSE 0)

\* the number of newline characters in a text
Newlines(text) == Cardinality({i \in 1..Len(text) : text[i] = "\n"})

\* p is a prefix of s
IsPrefix(p, s) == Len(p) <= Len(s) /\ \A i \in 1..Len(p) : p[i] = s[i]

(***************************************************************************)
(* C1: the Display rendering of an Error with context c1..cn is n lines    *)
(* (one more when a message is set), each ended by a newline: line k is    *)
(* c(n-k) behind 2*k spaces, and the message, if any, is the last line     *)
(* behind 2*n spaces.                                                      *)
(***************************************************************************)
C1_DisplayReverseIndented ==
    (last.op = "display") =>
        /\ last.out = RenderedFrom(res.error, 0, LineCount(res.error))
        /\ Newlines(last.out) = LineCount(res.error)

C1_Witness ==
    /\ last.op = "display"
    /\ Len(Entries(res.error)) = 3
    /\ res.error.message.some
    /\ Entries(res.error)[1] # Entries(res.error)[3]

(***************************************************************************)
(* C2: an Error with neither message nor context renders as the empty      *)
(* text, and exit() on it writes nothing to the error stream and gives     *)
(* its status to process::exit.                                            *)
(***************************************************************************)
C2_BareErrorSilentExit ==
    (res.tag = "Err" /\ ~res.error.context.some /\ ~res.error.message.some)
        => /\ (last.op = "display" => last.out = <<>>)
           /\ (pc = "exited" =>
                  stderr = <<>> /\ exitCode = Some(res.error.status))

C2_Witness ==
    /\ pc = "exited"
    /\ ~res.error.context.some /\ ~res.error.message.some
    /\ res.error.status = 3

(***************************************************************************)
(* C3: when a message or context is present, exit() writes exactly the     *)
(* display form of the error to the error stream, nothing before or after  *)
(* it, and then terminates the process with the status.                    *)
(***************************************************************************)
C3_ExitWritesExactlyDisplay ==
    (pc = "exited" /\ (res.error.context.some \/ res.error.message.some))
        => /\ stderr = Display(res.error)
           /\ exitCode = Some(res.error.status)

(***************************************************************************)
(* C4: Result::context(f) on an Ok result does not invoke f and returns    *)
(* the same Ok value.                                                      *)
(***************************************************************************)
C4_OkContextIsLazy ==
    [][(res.tag = "Ok" /\ last'.op = "result_context")
         => (last'.calls = 0 /\ res' = res)]_vars

C4_Witness ==
    last.op = "result_context" /\ res.tag = "Ok" /\ res.value = 8

(***************************************************************************)
(* C5: Result::context(f) on Err(e) invokes f once and returns Err(e')     *)
(* where e' is e with f's output added as the last context entry; status,  *)
(* message and the earlier entries are those of e.                         *)
(***************************************************************************)
C5_ErrContextAppends ==
    [][(res.tag = "Err" /\ last'.op = "result_context")
         => LET old == Entries(res.error)
                new == Entries(res'.error)
            IN  /\ last'.calls = 1
                /\ res'.tag = "Err"
                /\ res'.error.status = res.error.status
                /\ res'.error.message = res.error.message
                /\ res'.error.context.some
                /\ Len(new) = Len(old) + 1
                /\ new[Len(new)] = last'.arg
                /\ \A i \in 1..Len(old) : new[i] = old[i]]_vars

C5_Witness ==
    /\ last.op = "result_context" /\ res.tag = "Err" /\ last.calls = 1
    /\ Len(Entries(res.error)) = 2
    /\ Entries(res.error)[1] # Entries(res.error)[2]
    /\ res.error.message.some

(***************************************************************************)
(* C6: a context() call, on the Error or through Result::context, leaves   *)
(* status and message as they were, keeps the earlier context as a prefix  *)
(* of the new one and makes it one entry longer, also for an error that    *)
(* came from a native error.                                               *)
(***************************************************************************)
C6_ContextOnlyGrows ==
    [][(res.tag = "Err" /\ last'.op \in {"context", "result_context"})
         => /\ res'.error.status = res.error.status
            /\ res'.error.message = res.error.message
            /\ IsPrefix(Entries(res.error), Entries(res'.error))
            /\ Len(Entries(res'.error)) = Len(Entries(res.error)) + 1]_vars

\* a status of OsCodePool only comes from a converted native error
C6_Witness ==
    /\ last.op = "context"
    /\ res.error.status \in OsCodePool
    /\ Len(Entries(res.error)) = 3

(***************************************************************************)
(* C7: the context of an Error is absent or a non-empty sequence.          *)
(***************************************************************************)
C7_ContextNeverEmpty ==
    (res.tag = "Err" /\ res.error.context.some)
        => Len(res.error.context.val) >= 1

C7_Witness ==
    /\ res.tag = "Err" /\ res.error.context.some
    /\ res.error.status = 3 /\ last.op = "context"

(***************************************************************************)
(* C8: converting a native error without a source gives context None and   *)
(* the error's display text as message.                                    *)
(***************************************************************************)
C8_SingleLevelConversion ==
    (last.op = "from" /\ Len(last.chain) = 1)
        => /\ res.error.context = None
           /\ res.error.message = Some(last.chain[1].text)

C8_Witness ==
    /\ last.op = "from" /\ Len(last.chain) = 1
    /\ last.chain[1].text = <<"a">>

(***************************************************************************)
(* C9: the status of a converted chain is the raw code of its terminal     *)
(* node when that node is an OS-level I/O error, and 1 for every other     *)
(* terminal node, whatever the other nodes are.                            *)
(***************************************************************************)
C9_StatusFromTerminal ==
    (last.op = "from")
        => LET terminal == last.chain[Len(last.chain)]
           IN  res.error.status =
                  IF terminal.kind = "IoOs" THEN terminal.code ELSE 1

C9_Witness ==
    /\ last.op = "from" /\ Len(last.chain) >= 2
    /\ last.chain[1].kind = "Io"
    /\ last.chain[Len(last.chain)].kind = "IoOs"
    /\ res.error.status = 13

(***************************************************************************)
(* C10: converting e0 -> ... -> en (n >= 1) gives the display texts of     *)
(* e0..e(n-1) as context, in that order, and the display text of en as     *)
(* message; the traversal is at each node once, in chain order, and ends.  *)
(***************************************************************************)
C10_ChainConversion ==
    (last.op = "from" /\ Len(last.chain) >= 2)
        => LET n == Len(last.chain) - 1
           IN  /\ res.error.context.some
               /\ Len(res.error.context.val) = n
               /\ \A i \in 1..n :
                     res.error.context.val[i] = last.chain[i].text
               /\ res.error.message = Some(last.chain[n + 1].text)
               /\ last.walk = [i \in 1..(n + 1) |-> i]

C10_Witness ==
    /\ last.op = "from" /\ Len(last.chain) = 3
    /\ last.chain[1].text # last.chain[2].text
    /\ last.chain[2].text # last.chain[3].text

(***************************************************************************)
(* Helpers of the properties of the conversion's rendering.                *)
(***************************************************************************)
\* the lines of a text: the texts between its newlines
RECURSIVE SplitLines(_)
SplitLines(text) ==
    IF text = <<>> THEN <<>>
    ELSE IF \E i \in 1..Len(text) : text[i] = "\n"
         THEN LET k == CHOOSE i \in 1..Len(text) :
                          /\ text[i] = "\n"
                          /\ \A j \in 1..(i - 1) : text[j] # "\n"
              IN  << SubSeq(text, 1, k - 1) >>
                     \o SplitLines(SubSeq(text, k + 1, Len(text)))
         ELSE << text >>

(***************************************************************************)
(* C11: the rendering of an Error converted from e0 -> ... -> en, n >= 2,  *)
(* has display(e(n-1)) as its unindented first line, display(e0) as the    *)
(* line right before the root message and display(en) as its last, most    *)
(* indented line.                                                          *)
(***************************************************************************)
C11_ConvertedChainRendering ==
    (last.op = "display" /\ Len(native) >= 3)
        => LET n == Len(native) - 1
               ls == SplitLines(last.out)
           IN  /\ Len(ls) = n + 1
               /\ ls[1] = native[n].text
               /\ ls[n] = Indent(2 * (n - 1)) \o native[1].text
               /\ ls[n + 1] = Indent(2 * n) \o native[n + 1].text

C11_Witness ==
    /\ last.op = "display" /\ Len(native) = 3
    /\ native[1].text = <<"a">> /\ native[2].text = <<" ", "b">>

(***************************************************************************)
(* C12: message(text) makes text the stored message, whatever message was  *)
(* stored before, and leaves status and context as they were.              *)
(***************************************************************************)
C12_MessageReplaces ==
    [][(res.tag = "Err" /\ last'.op = "message")
         => /\ res'.error.message = Some(last'.arg)
            /\ res'.error.status = res.error.status
            /\ res'.error.context = res.error.context]_vars

\* a status of OsCodePool comes with the message of the converted error
C12_Witness ==
    /\ last.op = "message"
    /\ res.error.status \in OsCodePool
    /\ res.error.context.some
    /\ res.error.message = Some(<<"a">>)

(***************************************************************************)
(* C13: Error::new(s) has status s, no message and no context;             *)
(* Error::default() has status 1, no message and no context.               *)
(***************************************************************************)
C13_NewAndDefault ==
    /\ (last.op = "new") =>
          res = Err([context |-> None, message |-> None,
                     status |-> last.status])
    /\ (last.op = "default") =>
          res = Err([context |-> None, message |-> None, status |-> 1])

C13_Witness == last.op = "new" /\ last.status = -1 /\ res.tag = "Err"

(***************************************************************************)
(* C14: get_status, get_message and get_context return the stored status,  *)
(* message and context entries in insertion order, and change nothing.     *)
(***************************************************************************)
C14_InspectReturnsStored ==
    [][(last'.op \in {"get_status", "get_message", "get_context"})
         => /\ res' = res
            /\ stderr' = stderr /\ exitCode' = exitCode /\ pc' = pc
            /\ CASE last'.op = "get_status" ->
                      last'.ret = res.error.status
                 [] last'.op = "get_message" ->
                      last'.ret = res.error.message
                 [] last'.op = "get_context" ->
                      /\ last'.ret.some = res.error.context.some
                      /\ Len(last'.ret.val) = Len(res.error.context.val)
                      /\ \A i \in 1..Len(res.error.context.val) :
                            last'.ret.val[i] = res.error.context.val[i]]_vars

C14_Witness ==
    /\ last.op = "get_context"
    /\ last.ret.some /\ Len(last.ret.val) = 2
    /\ last.ret.val[1] # last.ret.val[2]
    /\ res.error.message.some

(***************************************************************************)
(* Helpers of the properties of the execution context.                     *)
(***************************************************************************)
\* the guards alive for a role: the frames of accessors and handles of it
Guards(role) ==
    { <<t, i>> \in Threads \X (1..MaxDepth + 1) :
        i <= Len(thread[t].stack) /\ thread[t].stack[i].role = role }

\* thread t is at the mutex.lock() of an accessor or a handle
AtRoleLock(t) ==
    thread[t].state = "waiting" /\ thread[t].want.op \in {"accessor", "handle"}

\* no thread called the context from inside a closure or under a handle
Unnested == \A t \in Threads : thread[t].state # "running" =>
                                  thread[t].stack = <<>>

\* the bytes of the segments, one after another
RECURSIVE Flatten(_)
Flatten(segs) ==
    IF segs = <<>> THEN <<>> ELSE Head(segs).bytes \o Flatten(Tail(segs))

\* thread t leaves its innermost guard's scope in this step
Returns(t) ==
    /\ thread[t].state = "running" /\ thread'[t].state = "running"
    /\ Len(thread'[t].stack) = Len(thread[t].stack) - 1

\* thread t writes a byte in this step
Writes(t) ==
    /\ Len(thread[t].stack) >= 1
    /\ Len(thread'[t].stack) = Len(thread[t].stack)
    /\ thread'[t].stack[Len(thread[t].stack)].todo
          # thread[t].stack[Len(thread[t].stack)].todo

\* thread t resets the role it waits for in this step, in a reset of one
\* role or as a step of reset()
Resets(t) ==
    /\ thread[t].state = "waiting"
    /\ thread[t].want.op \in {"reset", "reset_all"}
    /\ thread'[t].state # "panicked"
    /\ \/ thread'[t].state = "running"
       \/ thread'[t].want.role # thread[t].want.role

\* thread t reads the input to its end in this step
Reads(t) ==
    /\ Len(thread[t].stack) >= 1
    /\ Len(thread'[t].stack) = Len(thread[t].stack)
    /\ ~thread[t].stack[Len(thread[t].stack)].got
    /\ thread'[t].stack[Len(thread[t].stack)].got

\* the closure of thread t panics in this step
ClosurePanics(t) ==
    /\ thread[t].state = "running" /\ thread[t].stack # <<>>
    /\ thread'[t].state = "panicked"

\* thread t gets through the given call in this step
Performs(t, op) ==
    /\ thread[t].state = "waiting" /\ thread[t].want.op = op
    /\ thread'[t].state = "running"

C16_NoSecondGuard ==
    /\ [](\A role \in Fields : Cardinality(Guards(role)) <= 1)
    /\ [][\A t \in Threads :
            (/\ thread[t].state = "waiting"
             /\ thread[t].want.op
                   \in {"accessor", "handle", "snapshot", "reset"}
             /\ \E g \in Guards(thread[t].want.role) : g[1] = t)
               => /\ thread'[t].state \in {"waiting", "stuck", "panicked"}
                  /\ thread'[t].ret = thread[t].ret
                  /\ thread'[t].stack \in {thread[t].stack, <<>>}]_vars

C16_Witness ==
    \E t \in Threads :
       /\ thread[t].state = "stuck"
       /\ thread[t].want.op = "snapshot"
       /\ thread[t].want.role = "output"
       /\ Guards("output") = { <<t, 1>> }

(***************************************************************************)
(* C17: when an accessor returns, with a success or a failure value of     *)
(* the closure, the role's lock is free again, the accessor returns the    *)
(* closure's value and the closure was invoked once.                       *)
(***************************************************************************)
C17_AccessorReleases ==
    [][\A t \in Threads :
         LET frame == thread[t].stack[Len(thread[t].stack)]
         IN  (Returns(t) /\ frame.op = "accessor")
                => /\ ~locked'[frame.role]
                   /\ ~poisoned'[frame.role]
                   /\ \A u \in Threads :
                         \A i \in 1..Len(thread'[u].stack) :
                            thread'[u].stack[i].role # frame.role
                   /\ thread'[t].ret.op = "accessor"
                   /\ thread'[t].ret.result = frame.result
                   /\ thread'[t].ret.calls = 1]_vars

C17_Witness ==
    \E t \in Threads :
       /\ thread[t].ret.op = "accessor"
       /\ thread[t].ret.result = "Err"
       /\ thread[t].ret.role = "output"
       /\ \E u \in Threads \ {t} : Guards("output") = { <<u, 1>> }

(***************************************************************************)
(* C18: at most one thread holds a role's lock at a time, so the bytes of  *)
(* one closure are contiguous in the buffer, and the buffer is the writes  *)
(* of the closures one after another in the order the lock was acquired.   *)
(***************************************************************************)
C18_ExclusiveWrites ==
    \A f \in Fields :
       /\ Cardinality(Holders(f)) <= 1
       /\ Cardinality(Guards(f)) <= 1
       /\ stream[f].bytes = Flatten(segments[f])
       /\ \A i, j \in 1..Len(segments[f]) :
             i < j => segments[f][i].id < segments[f][j].id

C18_Witness ==
    /\ Len(segments["output"]) = 2
    /\ stream["output"].bytes = <<2, 3, 2, 3>>
    /\ thread[1].ret.op = "accessor" /\ thread[2].ret.op = "accessor"

(***************************************************************************)
(* C19: a fresh test context has three empty buffers; a write through the  *)
(* accessor of a role appends the byte to that role's buffer and leaves    *)
(* the other two as they were; a snapshot returns the bytes of its role's  *)
(* buffer and changes no buffer.                                           *)
(***************************************************************************)
C19_SnapshotsShowWrites ==
    /\ \A f \in Fields : stream[f] = [bytes |-> <<>>, pos |-> 0]
    /\ [][\A t \in Threads :
            /\ Writes(t) =>
                  LET frame == thread[t].stack[Len(thread[t].stack)]
                  IN  /\ stream'[frame.role].bytes =
                            Append(stream[frame.role].bytes,
                                   Head(frame.todo))
                      /\ \A f \in Fields \ {frame.role} :
                            stream'[f] = stream[f]
            /\ Performs(t, "snapshot") =>
                  /\ thread'[t].ret.data = stream[thread[t].want.role].bytes
                  /\ stream' = stream]_vars

C19_Witness ==
    \E t \in Threads :
       /\ thread[t].ret.op = "snapshot"
       /\ thread[t].ret.role = "output"
       /\ thread[t].ret.data = <<2, 3>>
       /\ stream["error"].bytes = <<>>
       /\ stream["input"].bytes = <<>>

(***************************************************************************)
(* C20: after set_input(c) reading the input to its end gives c, and the   *)
(* error and output buffers are as they were.                              *)
(***************************************************************************)
C20_SetInputSeedsInput ==
    [][\A t \in Threads :
         Performs(t, "set_input") =>
            /\ SubSeq(stream'["input"].bytes, stream'["input"].pos + 1,
                      Len(stream'["input"].bytes)) = thread[t].want.contents
            /\ stream'["error"] = stream["error"]
            /\ stream'["output"] = stream["output"]]_vars

(***************************************************************************)
(* C21: a reset of a role, alone or as a step of reset(), leaves that      *)
(* role's buffer empty, for the input at position 0 so that a read gives   *)
(* nothing, whatever the buffer and position were, and leaves the other    *)
(* two roles as they were; reset() of a thread that has the context for    *)
(* itself ends with three empty buffers.                                   *)
(***************************************************************************)
C21_ResetEmptiesRole ==
    /\ [][\A t \in Threads :
            Resets(t) =>
               LET role == thread[t].want.role
               IN  /\ stream'[role] = [bytes |-> <<>>, pos |-> 0]
                   /\ ReadToEnd(stream'[role]).data = <<>>
                   /\ \A f \in Fields \ {role} : stream'[f] = stream[f]]_vars
    /\ [][\A t \in Threads :
            (Performs(t, "reset_all") /\ \A u \in Threads \ {t} : Idle(u))
               => \A f \in Fields :
                     stream'[f] = [bytes |-> <<>>, pos |-> 0]]_vars

C21_Witness ==
    \E t \in Threads, u \in Threads :
       /\ thread[t].ret.op = "write_input"
       /\ thread[t].ret.data = <<5, 6>>
       /\ thread[u].ret.op = "reset" /\ thread[u].ret.role = "input"
       /\ stream["input"] = [bytes |-> <<>>, pos |-> 0]

(***************************************************************************)
(* C22: the handle of a role is the lock and the stream of that role: a    *)
(* byte written under the handle's guard is appended to the buffer that    *)
(* the role's accessor and snapshot use, a read under the guard of the     *)
(* input handle gives the bytes of the input buffer from its position,     *)
(* and while the guard is alive no accessor of the role gets its lock.     *)
(***************************************************************************)
C22_HandleIsRoleStream ==
    /\ [][\A t \in Threads :
            LET frame == thread[t].stack[Len(thread[t].stack)]
            IN  /\ (Writes(t) /\ frame.op = "handle") =>
                      /\ stream'[AccessorField(frame.role)].bytes =
                            Append(stream[AccessorField(frame.role)].bytes,
                                   Head(frame.todo))
                      /\ SnapshotOf(stream'[SnapshotField(frame.role)]) =
                            Append(SnapshotOf(stream[SnapshotField(frame.role)]),
                                   Head(frame.todo))
                /\ (Reads(t) /\ frame.op = "handle") =>
                      thread'[t].stack[Len(thread[t].stack)].data =
                         ReadToEnd(stream[AccessorField("input")]).data]_vars
    /\ [][\A t \in Threads :
            (/\ thread[t].state = "waiting"
             /\ thread[t].want.op = "accessor"
             /\ \E g \in Guards(thread[t].want.role) :
                   thread[g[1]].stack[g[2]].op = "handle")
               => /\ thread'[t].state \in {"waiting", "stuck", "panicked"}
                  /\ thread'[t].ret = thread[t].ret]_vars

C22_Witness ==
    \E t \in Threads : \E u \in Threads \ {t} :
       /\ thread[t].state = "running"
       /\ Len(thread[t].stack) = 1
       /\ thread[t].stack[1].op = "handle"
       /\ thread[t].stack[1].role = "output"
       /\ thread[t].stack[1].todo = <<>>
       /\ stream["output"].bytes = <<4>>
       /\ thread[u].state = "waiting"
       /\ thread[u].want.op = "accessor"
       /\ thread[u].want.role = "output"

(***************************************************************************)
(* C23: a closure that panics poisons the lock of every role the thread    *)
(* holds a guard of, and of no other role; a poisoned lock stays           *)
(* poisoned, and a call on its role never gets into its closure or         *)
(* returns: it panics, at the latest when the lock is free; a waiting      *)
(* accessor of a role that is not poisoned and has no guard alive gets     *)
(* its lock.                                                               *)
(***************************************************************************)
C23_PoisonedLockPanics ==
    /\ [](\A t \in Threads :
            (AtRoleLock(t) /\ ~poisoned[thread[t].want.role]
               /\ Guards(thread[t].want.role) = {})
                 => ENABLED (Lock(t) /\ thread'[t].state = "running"))
    /\ [][\A f \in Fields : poisoned[f] => poisoned'[f]]_vars
    /\ [][\A t \in Threads :
            ClosurePanics(t) =>
               \A f \in Fields :
                  poisoned'[f] = (poisoned[f] \/
                                    \E g \in Guards(f) : g[1] = t)]_vars
    /\ [][\A t \in Threads :
            (/\ thread[t].state = "waiting"
             /\ thread[t].want.op \in {"accessor", "handle", "snapshot", "reset"}
             /\ poisoned[thread[t].want.role])
               => /\ thread'[t].state \in {"waiting", "stuck", "panicked"}
                  /\ thread'[t].ret = thread[t].ret
                  /\ thread'[t].stack \in {thread[t].stack, <<>>}
                  /\ (~locked[thread[t].want.role] /\ thread'[t] # thread[t])
                        => thread'[t].state = "panicked"]_vars

C23_Witness ==
    \E t \in Threads : \E u \in Threads \ {t} :
       /\ thread[t].state = "panicked" /\ thread[t].want = NoRequest
       /\ thread[u].state = "panicked"
       /\ thread[u].want.op = "accessor" /\ thread[u].want.role = "error"
       /\ poisoned["error"] /\ ~poisoned["input"] /\ ~poisoned["output"]

(***************************************************************************)
(* Helpers of the properties of the Stream.                                *)
(***************************************************************************)
\* the capability table: the operations a backing kind supports
Capable(kind, op) ==
    CASE kind = "memory" -> op \in {"read", "write", "seek"}
      [] kind \in {"error", "output"} -> op = "write"
      [] kind = "input" -> op = "read"

\* the given operation is done on the Stream in this step
Does(op) == ~halted /\ stm # NoStream /\ hist'.op = op /\ hist' # hist

(***************************************************************************)
(* C24: read, write and seek on a Stream: a memory stream supports all     *)
(* three, the error and output consoles only write, the input console      *)
(* only read; a supported operation does not halt, and an unsupported      *)
(* one halts the process and leaves the stream, the consoles and the       *)
(* input as they were.                                                     *)
(***************************************************************************)
C24_UnsupportedHalts ==
    [][\A op \in {"read", "write", "seek"} :
          Does(op) =>
             /\ halted' = ~Capable(stm.kind, op)
             /\ halted' => /\ stm' = stm /\ console' = console
                           /\ stdin' = stdin
                           /\ hist'.data = <<>>
                           /\ hist'.written = hist.written
             /\ (op = "write" /\ ~halted') =>
                   \/ stm' # stm
                   \/ console' # console]_vars

C24_Witness ==
    /\ halted /\ stm.kind = "input" /\ hist.op = "write"
    /\ stdin = <<169>>

(***************************************************************************)
(* C25: when UTF-8 bytes b were written to a fresh memory stream and the   *)
(* stream was sought to its start, to_string and to_string_lossy return    *)
(* the text whose UTF-8 encoding is b.                                     *)
(***************************************************************************)
C25_MemoryRoundTrip ==
    [][(/\ stm.kind = "memory" /\ hist.phase = "rewound"
        /\ ValidUtf8(hist.written)
        /\ (Does("to_string") \/ Does("to_string_lossy")))
          => /\ ~halted'
             /\ hist'.phase = "drained"
             /\ Utf8Encode(hist'.data) = hist.written
             /\ stm'.bytes = hist.written]_vars

C25_Witness ==
    /\ stm.kind = "memory" /\ hist.phase = "drained"
    /\ hist.op = "to_string"
    /\ hist.written = <<65, 195, 169>>
    /\ hist.data = <<65, 233>>

(***************************************************************************)
(* C26: in the example programs a run whose command succeeds ends with     *)
(* nothing on the error stream and without a call of exit(); a run whose   *)
(* command fails calls exit() once, as its last step, on the error the     *)
(* command returned, behind what the command itself wrote to the error     *)
(* stream. The single example with --error writes "The command is about    *)
(* to fail!" to the error stream and nothing to the output and returns     *)
(* status 1 with the message "The command failed.".                        *)
(***************************************************************************)
C26_ExitOnlyOnFailure ==
    /\ [](/\ app.exits <= 1
          /\ app.at = "done" =>
                /\ res.tag = "Ok" /\ stderr = <<>> /\ app.exits = 0
                /\ pc = "running" /\ exitCode = NoCode
          /\ app.at = "exited" =>
                /\ res.tag = "Err" /\ app.exits = 1 /\ pc = "exited"
                /\ exitCode = Some(res.error.status)
          /\ (/\ app.run.program = "single" /\ app.run.flag
              /\ app.run.fault = <<>> /\ app.at \in {"main", "exited"}) =>
                /\ res = Err([context |-> None,
                              message |-> Some(CommandFailed),
                              status |-> 1])
                /\ stdout = <<>>
                /\ IsPrefix(AboutToFail \o <<"\n">>, stderr)
                /\ app.at = "main" => stderr = AboutToFail \o <<"\n">>)
    /\ [][/\ app.at # "exited"
          /\ (app.at = "main" /\ res.tag = "Err") =>
                /\ app'.at = "exited"
                /\ IsPrefix(stderr, stderr')
                /\ res' = res /\ stdout' = stdout]_vars

C26_Witness ==
    /\ app.at = "exited" /\ app.run.program = "single" /\ app.run.flag
    /\ app.exits = 1 /\ exitCode = Some(1)
    /\ app.ran = <<"writeln_error", "err!">>
    /\ Len(stderr) > Len(AboutToFail) + 1

C28_DispatchRunsActiveVariant ==
    (app.run.program = "multiple" /\ app.at \in {"main", "done", "exited"})
       => LET run == app.run
              greeting ==
                 (IF run.subcommand = "Hello"
                  THEN <<"H", "e", "l", "l", "o", ",", " ">>
                  ELSE <<"G", "o", "o", "d", "b", "y", "e", ",", " ">>)
                 \o run.name \o (IF run.yell THEN <<"!">> ELSE <<".">>)
                 \o <<"\n">>
          IN  /\ app.ran = <<IF run.subcommand = "Hello"
                               THEN "hello::execute" ELSE "goodbye::execute">>
              /\ run.fault = <<>> => res = Ok(0) /\ stdout = greeting
              /\ run.fault # <<>> =>
                    /\ stdout = <<>>
                    /\ res = Err([context |-> None,
                                  message |-> Some(run.fault[1].text),
                                  status |-> run.fault[1].code])

C28_Witness ==
    /\ app.run.program = "multiple" /\ app.at = "done"
    /\ app.run.subcommand = "Goodbye" /\ app.run.yell
    /\ stdout = <<"G", "o", "o", "d", "b", "y", "e", ",", " ", "a", "!", "\n">>
    /\ app.ran = <<"goodbye::execute">>

(***************************************************************************)
(* C29: err!(status), err!(status, message) and err!(status, message,      *)
(* args) return from the enclosing function at once with Err of an Error   *)
(* with that status, no context, and no message, the message as given,     *)
(* or the formatted message; no statement behind the err! runs. error!     *)
(* builds the same Error and the function goes on.                         *)
(***************************************************************************)
C29_ErrReturnsAtOnce ==
    (app.run.program = "closure" /\ app.run.flag)
       => LET run == app.run
              message ==
                 IF ~run.message.some THEN None
                 ELSE IF ~run.args.some THEN run.message
                 ELSE IF run.message.val = <<"T", "{}", "m">>
                           /\ run.args.val = <<"x", "y">>
                      THEN Some(<<"T", "x", "y", "m">>)
                 ELSE run.message
              expected == [context |-> None, message |-> message,
                           status |-> run.status]
          IN  /\ run.makro = "err" =>
                    /\ app.at \in {"body", "returned"}
                    /\ app.at = "returned" =>
                          /\ res = Err(expected)
                          /\ app.ran = <<"err!">>
                    /\ app.built = None
              /\ run.makro = "error" =>
                    /\ app.at \in {"after", "returned"} =>
                          app.built = Some(expected)
                    /\ app.at = "returned" =>
                          /\ res = Ok(0)
                          /\ app.ran = <<"error!", "Ok(())">>

C29_Witness ==
    /\ app.run.program = "closure" /\ app.run.flag
    /\ app.run.makro = "err" /\ app.at = "returned"
    /\ res.tag = "Err" /\ res.error.status = 3
    /\ res.error.message = Some(<<"T", "x", "y", "m">>)
    /\ res.error.context = None

(***************************************************************************)
(* C30: reset() takes the locks of error, input and output one after       *)
(* another and holds none of them when it takes the next, so among         *)
(* threads that call accessors without nesting it always gets through      *)
(* (it ends, or panics at a poisoned lock) and no state is a deadlock;     *)
(* its steps leave the roles they are not about as they are, so a write    *)
(* by another thread to a role reset() is done with stays.                 *)
(***************************************************************************)
C30_ResetTerminates ==
    /\ [](\A t \in Threads :
            (thread[t].state = "waiting" /\ thread[t].want.op = "reset_all")
               => /\ Held(t) = {}
                  /\ \/ ENABLED Lock(t)
                     \/ \E u \in Threads \ {t} :
                           /\ thread[t].want.role \in Held(u)
                           /\ ENABLED (Write(u) \/ Read(u) \/ Return(u)
                                         \/ Panic(u)))
    /\ [][\A t \in Threads :
            (Resets(t) /\ thread[t].want.op = "reset_all")
               => /\ locked' = locked
                  /\ thread'[t].stack = <<>>
                  /\ \A f \in Fields \ {thread[t].want.role} :
                        stream'[f] = stream[f]
                  /\ \/ /\ thread'[t].state = "waiting"
                        /\ ResetIndex(thread'[t].want.role) =
                              ResetIndex(thread[t].want.role) + 1
                     \/ /\ thread'[t].state = "running"
                        /\ thread[t].want.role = "output"
                        /\ thread'[t].ret.op = "reset_all"]_vars
    /\ \A t \in Threads :
          (thread[t].state = "waiting" /\ thread[t].want.op = "reset_all")
             ~> \/ thread[t].state = "running" /\ thread[t].ret.op = "reset_all"
                \/ thread[t].state = "panicked"

C30_Witness ==
    \E t \in Threads : \E u \in Threads \ {t} :
       /\ thread[t].state = "waiting"
       /\ thread[t].want.op = "reset_all" /\ thread[t].want.role = "output"
       /\ thread[u].ret.op = "accessor" /\ thread[u].ret.role = "error"
       /\ stream["error"].bytes = <<2, 3>>
       /\ acquired["error"] = 2

====
